---- MODULE Spec2Model ----
(***************************************************************************)
(* A model of the KLF dependency container (src/src/dicontainer.js), of   *)
(* the controller factory and of the convention-based route registration  *)
(* (baseController.js, kept as src/unnamed/part_002).                      *)
(*                                                                         *)
(* JavaScript runs one synchronous segment at a time; an async function   *)
(* gives up control at every `await`.  Each action below is one such      *)
(* segment: the code from one await (or from the call) up to the next.    *)
(***************************************************************************)
EXTENDS Integers, Sequences, FiniteSets, TLC

\* ------------------------------------------------------------------ bounds
\* How many fill() and createController() calls are issued to a container
\* whose dependencies were registered at start-up (Spec).
MaxCalls == 2
\* How many names those calls ask for in total.
MaxNames == 3
\* How many register() calls, and how many fill() calls among them, are issued
\* to a container that starts empty (SpecRegister).
MaxRegs == 2
MaxRegCalls == 1
\* How many methods a scanned controller class declares (SpecRoutes).
MaxMethods == 3
\* How many createController() calls are among them.
MaxControllers == 1
\* How many requests the route handlers take (SpecRequests).
MaxRequests == 2
\* How many times registerControllersAsync runs: the start and the reloads.
MaxPasses == 2
\* How many locateViewFile calls are made (SpecViews).
MaxLocates == 3
\* How many configuration changes the watcher reports, and how long the
\* clock runs, in milliseconds (SpecReload).
MaxReloads == 2
MaxTime == 1500

\* --------------------------------------------------------------- constants
\* Lifespan.Lifetime and Lifespan.SingleUse
Lifetime == 0
SingleUse == 1
\* application.js: a reload less than 1000 ms after the last start is skipped.
Window == 1000
\* The step of the clock, in milliseconds.
TickMs == 500

\* A value is a tuple.  The falsy values `false` (DIEntry.instance before it is
\* set) and `undefined` (get() of an absent key, a hook that returns nothing)
\* are both the empty tuple.  <<t, i>> is the object constructed for the i-th
\* get() of fill() call t, and <<t, i, "decorator">> the object a configure
\* hook made around it.
Undefined == << >>
NoInstance == << >>
Truthy(v) == v # << >>
Constructed(t, i) == <<t, i>>

\* The names requested and registered.  #modules is a plain object, so the
\* `in` operator also finds what it inherits from Object.prototype.
Keys == {"vault", "toString"}
ObjectPrototypeKeys == {"toString"}

\* ------------------------------------------------------------------ DISpec
\* module:    "none" | "class" (a class-shaped export) | "plain" (any other export)
\* builder:   "none" | "object" (a function whose promise resolves to a new object)
\*            | "flaky" (a function whose promise resolves to a new object or rejects)
\* configure: "none" | "same" (returns the instance it was given)
\*            | "wrap" (returns a decorator) | "nothing" (returns undefined)
\*            | "throws"
\* lifespan:  "absent" | "Lifetime" | "SingleUse" (the strings)
\*            | "0" | "1" (the numbers Lifespan.Lifetime and Lifespan.SingleUse)
DISpec(m, b, c, l) == [module |-> m, builder |-> b, configure |-> c, lifespan |-> l]

Specs ==
    { DISpec("class", "none", "none", "absent"),
      DISpec("none", "object", "none", "Lifetime"),
      DISpec("class", "none", "wrap", "SingleUse"),
      DISpec("class", "none", "nothing", "absent"),
      DISpec("none", "none", "none", "absent") }

\* Dependencies whose construction fails: a builder that may reject, a hook
\* that throws, and a module that is not a class and has no builder.
FailingSpecs ==
    { DISpec("none", "flaky", "none", "Lifetime"),
      DISpec("class", "none", "throws", "absent"),
      DISpec("plain", "none", "none", "absent") }

\* Dependencies registered with a value of the exported Lifespan object, as
\* index.js does.
EnumSpecs ==
    { DISpec("class", "none", "none", "0"),
      DISpec("class", "none", "none", "1") }

\* The errors a get() can end in.
InvalidLifespan == <<"Error", "Invalid lifespan specified">>
FailedToCreate == <<"Error", "Failed to create dependency entry">>
BuilderError == <<"Error", "builder">>
ConfigureError == <<"Error", "configure">>

\* The Lifespan object, by property name.
Lifespan == [Lifetime |-> Lifetime, SingleUse |-> SingleUse]

\* register() builds { key: name, lifespan: Lifespan.Lifetime, ...spec }: a spec
\* without a lifespan leaves the number 0 there.
RegisterData(name, spec) ==
    [key |-> name, module |-> spec.module, builder |-> spec.builder,
     configure |-> spec.configure,
     lifespan |-> IF spec.lifespan = "absent" THEN "0" ELSE spec.lifespan]

\* data.lifespan && Lifespan[data.lifespan] || Lifespan.Lifetime
EntryLifespan(l) ==
    IF l # "0" /\ l \in DOMAIN Lifespan /\ Lifespan[l] # 0
    THEN Lifespan[l]
    ELSE Lifetime

\* new DIEntry(app, data): whether the constructor throws, and the fields.
DIEntryThrows(data) == data.module = "none" /\ data.builder = "none"

DIEntry(data) ==
    [key |-> data.key, builder |-> data.builder, configure |-> data.configure,
     instance |-> NoInstance, lifespan |-> EntryLifespan(data.lifespan),
     moduleExports |-> data.module,
     declared |-> data.lifespan]    \* kept for the record: the lifespan as given

\* ------------------------------------------------------ route registration
\* A string the code takes apart is a tuple of its characters.
Lower == <<"a","b","c","d","e","f","g","h","i","j","k","l","m",
           "n","o","p","q","r","s","t","u","v","w","x","y","z">>
Upper == <<"A","B","C","D","E","F","G","H","I","J","K","L","M",
           "N","O","P","Q","R","S","T","U","V","W","X","Y","Z">>
\* The characters that sort before every letter, in collation order.
Punctuation == <<" ", "_", "[", "]", "$">>

IndexIn(c, seq) == CHOOSE k \in DOMAIN seq : seq[k] = c
Has(c, seq) == \E k \in DOMAIN seq : seq[k] = c

\* String.prototype.localeCompare: the characters are compared by their
\* place in the alphabet whatever their case (punctuation first); strings
\* that differ in case only are ordered lower case first.
Primary(c) ==
    IF Has(c, Punctuation) THEN IndexIn(c, Punctuation)
    ELSE IF Has(c, Lower) THEN Len(Punctuation) + IndexIn(c, Lower)
    ELSE Len(Punctuation) + IndexIn(c, Upper)
Tertiary(c) == IF Has(c, Upper) THEN 1 ELSE 0

RECURSIVE LexCompare(_, _, _)
LexCompare(a, b, level) ==
    IF a = << >> /\ b = << >> THEN 0
    ELSE IF a = << >> THEN -1
    ELSE IF b = << >> THEN 1
    ELSE LET x == IF level = 1 THEN Primary(Head(a)) ELSE Tertiary(Head(a))
             y == IF level = 1 THEN Primary(Head(b)) ELSE Tertiary(Head(b))
         IN IF x < y THEN -1
            ELSE IF x > y THEN 1
            ELSE LexCompare(Tail(a), Tail(b), level)

LocaleCompare(a, b) ==
    IF LexCompare(a, b, 1) # 0 THEN LexCompare(a, b, 1) ELSE LexCompare(a, b, 3)

\* String(b) of a route object b: "[object Object]"
ObjectToString ==
    <<"[","o","b","j","e","c","t"," ","O","b","j","e","c","t","]">>

\* parseMethodName: the verbs, in the order of the alternation.
Verbs ==
    << <<"g","e","t">>, <<"p","o","s","t">>, <<"h","e","a","d">>,
       <<"d","e","l","e","t","e">>, <<"p","u","t">>,
       <<"c","o","n","n","e","c","t">>, <<"t","r","a","c","e">>,
       <<"p","a","t","c","h">> >>

IsPrefixAt(v, name, at) ==
    /\ at + Len(v) - 1 <= Len(name)
    /\ \A k \in DOMAIN v : name[at + k - 1] = v[k]

\* parseMethodName.exec(name): the leftmost place where a verb stands, the
\* first verb of the alternation that stands there, and the rest of the name.
MatchesAt(name, at) == \E v \in DOMAIN Verbs : IsPrefixAt(Verbs[v], name, at)
ParseMethodName(name) ==
    IF \E at \in DOMAIN name : MatchesAt(name, at)
    THEN LET at == CHOOSE x \in DOMAIN name :
                      MatchesAt(name, x) /\ \A y \in 1..(x - 1) : ~MatchesAt(name, y)
             v == CHOOSE x \in DOMAIN Verbs :
                      /\ IsPrefixAt(Verbs[x], name, at)
                      /\ \A y \in 1..(x - 1) : ~IsPrefixAt(Verbs[y], name, at)
         IN [matched |-> TRUE, verb |-> Verbs[v],
             path |-> SubSeq(name, at + Len(Verbs[v]), Len(name))]
    ELSE [matched |-> FALSE, verb |-> << >>, path |-> << >>]

\* A declared method: its name, its formal parameters, and the urlPath
\* property of the function ("none" when it has no such string).
Method(name, params, urlPath) == [name |-> name, params |-> params, urlPath |-> urlPath]

Index == <<"i","n","d","e","x">>

\* A url is the sequence of its segments: fixed text, or a :placeholder.
Literal(text) == [kind |-> "literal", text |-> text]
Placeholder(p) == [kind |-> "param", text |-> p]

\* The urlPath strings a method may carry, as the segments the router reads
\* them as.
FixedPaths ==
    ("/items" :> <<Literal(<<"i","t","e","m","s">>)>>)
    @@ ("/item/:id" :> <<Literal(<<"i","t","e","m">>), Placeholder("id")>>)

\* A scan that ranks every route by its parameters.
RouteRankedByParameters(m) ==
    LET parsed == ParseMethodName(m.name)
        byConvention == m.urlPath = "none"
    IN [parameters |-> m.params,
        verb |-> parsed.verb,
        name |-> m.name,
        urlPath |-> IF byConvention
                    THEN <<Literal(parsed.path)>>
                         \o [k \in DOMAIN m.params |-> Placeholder(m.params[k])]
                    ELSE FixedPaths[m.urlPath],
        ranking |-> Len(m.params),
        defaultView |-> IF parsed.path = << >> THEN Index ELSE parsed.path]

\* The route the scan makes of a method whose name matches.
Route(m) ==
    LET parsed == ParseMethodName(m.name)
        byConvention == m.urlPath = "none"
    IN [parameters |-> m.params,
        verb |-> parsed.verb,
        name |-> m.name,
        urlPath |-> IF byConvention
                    THEN <<Literal(parsed.path)>>
                         \o [k \in DOMAIN m.params |-> Placeholder(m.params[k])]
                    ELSE FixedPaths[m.urlPath],
        ranking |-> IF byConvention THEN Len(m.params) ELSE 0,
        defaultView |-> IF parsed.path = << >> THEN Index ELSE parsed.path]

\* The comparator handed to sort(): the ranking, then a.name.localeCompare(b)
\* with the route object b itself for an argument.
CompareRoutes(a, b) ==
    IF a.ranking < b.ranking THEN -1
    ELSE IF a.ranking > b.ranking THEN 1
    ELSE LocaleCompare(a.name, ObjectToString)

\* Array.prototype.sort of a short array, as V8 does it: the run the array
\* starts with is found (and reversed when it descends), then every later
\* element is put in its place by a binary search.
RECURSIVE RunEnd(_, _, _)
RunEnd(arr, idx, descending) ==
    IF idx > Len(arr) THEN Len(arr)
    ELSE LET order == CompareRoutes(arr[idx], arr[idx - 1]) IN
         IF (descending /\ order >= 0) \/ (~descending /\ order < 0)
         THEN idx - 1
         ELSE RunEnd(arr, idx + 1, descending)

Reverse(seq) == [k \in DOMAIN seq |-> seq[Len(seq) + 1 - k]]

RECURSIVE SearchPlace(_, _, _, _)
SearchPlace(arr, pivot, left, right) ==
    IF left >= right THEN left
    ELSE LET mid == left + ((right - left) \div 2) IN
         IF CompareRoutes(pivot, arr[mid]) < 0
         THEN SearchPlace(arr, pivot, left, mid)
         ELSE SearchPlace(arr, pivot, mid + 1, right)

RECURSIVE InsertFrom(_, _)
InsertFrom(arr, start) ==
    IF start > Len(arr) THEN arr
    ELSE LET pivot == arr[start]
             place == SearchPlace(arr, pivot, 1, start)
         IN InsertFrom(SubSeq(arr, 1, place - 1) \o <<pivot>>
                         \o SubSeq(arr, place, start - 1)
                         \o SubSeq(arr, start + 1, Len(arr)),
                       start + 1)

SortRoutes(arr) ==
    IF Len(arr) < 2 THEN arr
    ELSE LET descending == CompareRoutes(arr[2], arr[1]) < 0
             run == RunEnd(arr, 3, descending)
             made == IF descending
                     THEN Reverse(SubSeq(arr, 1, run)) \o SubSeq(arr, run + 1, Len(arr))
                     ELSE arr
         IN InsertFrom(made, run + 1)

\* A controller class: the name its controllerName is cut from, the
\* constructor's formal parameters, its methods in the order they are
\* declared, and whether it has a static registerRoutes.
Controller(name, ctor, methods, own) ==
    [controllerName |-> name, ctor |-> ctor, methods |-> methods, registerRoutes |-> own]

\* sortedRoutes of a class scanned by convention.
SortedRoutes(class) ==
    LET matches(m) == ParseMethodName(m.name).matched
        found == SelectSeq(class.methods, matches)
    IN SortRoutes([k \in DOMAIN found |-> Route(found[k])])

\* ---- the class text and the constructor branch
\* String.prototype.indexOf and slice, with JavaScript's 0-based positions
\* (-1: not found; a negative slice bound counts from the end).
JsIndexOf(text, pat, from) ==
    LET first == IF from < 0 THEN 0 ELSE from
        found == { j \in first..(Len(text) - Len(pat)) :
                     SubSeq(text, j + 1, j + Len(pat)) = pat }
    IN IF found = {} THEN -1
       ELSE CHOOSE j \in found : \A k \in found : j <= k

JsBound(n, at) ==
    IF at < 0 THEN (IF n + at < 0 THEN 0 ELSE n + at)
    ELSE (IF at > n THEN n ELSE at)

JsSlice(text, start, end) ==
    SubSeq(text, JsBound(Len(text), start) + 1, JsBound(Len(text), end))

\* text.split(',')
RECURSIVE Split(_)
Split(text) ==
    LET n == JsIndexOf(text, <<",">>, 0) IN
    IF n = -1 THEN <<text>>
    ELSE <<JsSlice(text, 0, n)>> \o Split(JsSlice(text, n + 1, Len(text)))

\* p.trim()
RECURSIVE Trim(_)
Trim(p) ==
    IF p = << >> THEN p
    ELSE IF Head(p) = " " THEN Trim(Tail(p))
    ELSE IF p[Len(p)] = " " THEN Trim(SubSeq(p, 1, Len(p) - 1))
    ELSE p

\* getParameterNames(methodDef): the text between the first '(' and the first
\* ')', split at the commas, without the empty pieces, each cut at its '=' and
\* trimmed.
GetParameterNames(methodDef) ==
    LET parameterListStart == JsIndexOf(methodDef, <<"(">>, 0) + 1
        parameterListEnd == JsIndexOf(methodDef, <<")">>, 0)
        parameterList == JsSlice(methodDef, parameterListStart, parameterListEnd)
        pieces == SelectSeq(Split(parameterList), LAMBDA q : Len(q) > 0)
        cut(q) == LET n == JsIndexOf(q, <<"=">>, 0)
                  IN IF n > -1 THEN JsSlice(q, 0, n) ELSE q
    IN [k \in DOMAIN pieces |-> Trim(cut(pieces[k]))]

\* The identifiers a constructor declares, as text.
ParameterText ==
    [settings |-> <<"s", "e", "t", "t", "i", "n", "g", "s">>,
     vault |-> <<"v", "a", "u", "l", "t">>]

NameOfText(text) ==
    IF \E n \in DOMAIN ParameterText : ParameterText[n] = text
    THEN CHOOSE n \in DOMAIN ParameterText : ParameterText[n] = text
    ELSE "?"

RECURSIVE Joined(_)
Joined(ps) ==
    IF ps = << >> THEN << >>
    ELSE IF Len(ps) = 1 THEN ParameterText[ps[1]]
    ELSE ParameterText[ps[1]] \o <<",", " ">> \o Joined(Tail(ps))

\* controllerType.toString(): the class as its file declares it, with the
\* constructor (when it declares one) before the methods.
ClassText(class) ==
    <<"c", "l", "a", "s", "s", " ", "C", " ", "{">>
    \o (IF class.ctor = << >> THEN << >>
        ELSE <<"c", "o", "n", "s", "t", "r", "u", "c", "t", "o", "r">> \o <<"(">> \o Joined(class.ctor) \o <<")", " ", "{", "}", " ">>)
    \o <<"g", "e", "t", "(", ")", " ", "{", "}">> \o <<"}">>

\* A constructor branch that keeps the settings parameter.
ConstructorParametersWithSettings(class) ==
    IF class.registerRoutes THEN << >>
    ELSE LET classText == ClassText(class)
             startConstructor == JsIndexOf(classText, <<"c","o","n","s","t","r","u","c","t","o","r">>, 0)
             endOfParameters == JsIndexOf(classText, <<")">>, startConstructor) + 1
             names == GetParameterNames(JsSlice(classText, startConstructor, endOfParameters))
         IN [k \in DOMAIN names |-> NameOfText(names[k])]

\* constructorParameters: what the 'constructor' key of the prototype pushes
\* (every prototype has that key), nothing when the class registers its own routes.
ConstructorParameters(class) ==
    IF class.registerRoutes THEN << >>
    ELSE LET classText == ClassText(class)
             startConstructor == JsIndexOf(classText, <<"c", "o", "n", "s", "t", "r", "u", "c", "t", "o", "r">>, 0)
             endOfParameters == JsIndexOf(classText, <<")">>, startConstructor) + 1
             constructorParams == JsSlice(classText, startConstructor, endOfParameters)
             names == GetParameterNames(constructorParams)
             parameters == JsSlice(names, 1, Len(names))
         IN [k \in DOMAIN parameters |-> NameOfText(parameters[k])]

\* The ControllerSettings addControllerType stores.
ControllerSettings(class) ==
    [controllerName |-> class.controllerName,
     constructorParameters |-> ConstructorParameters(class)]

\* A registration that scans every class.
RegisteredRoutesOfEveryClass(class) == SortedRoutes(class)

\* The routes registerControllersAsync hands to the router, in order.
RegisteredRoutes(class) ==
    IF class.registerRoutes THEN << >> ELSE SortedRoutes(class)

\* ------------------------------------------------------------------- state
VARIABLES
    modules,      \* DIContainer.#modules: own property name -> entry (an index of entries)
    entries,      \* every DIEntry object ever stored, by identity
    nregs,        \* register() calls made
    lastReg,      \* the last register() call and how it ended
    tasks,        \* the fill() calls issued, each with its get() calls
    controllers,  \* the set of ways createController() calls have ended
    classes,      \* the controller classes found in the controller directory
    controllerTypes,  \* the module's controllerTypes table: name -> settings
    router,       \* the routes handed to the router, in the order they were
    booted,       \* whether registerControllersAsync has run
    passes,       \* how many times registerControllersAsync has run
    requests,     \* the requests the route handlers have taken, in order
    viewLookupCache,  \* the view cache of the 'default' controller: view -> result
    files,        \* the view files that exist on disk
    located,      \* the locateViewFile calls made: how many, the last one, and
                  \* the result last returned for each view name asked for
    mounts,       \* the controllers whose router app.use() has mounted, in order
    app           \* the Application: its clock, #lastReload, #server, the run()
                  \* executions begun and the reload requests received

views == <<viewLookupCache, files, located>>
web == <<classes, controllerTypes, router, booted, passes, requests, views, mounts, app>>
vars == <<modules, entries, nregs, lastReg, tasks, controllers, web>>

\* name in mods, for the plain object mods
In(name, mods) == name \in DOMAIN mods \/ name \in ObjectPrototypeKeys

\* ---------------------------------------------------------------- register
\* A register that looks the name up before it constructs the entry.
RegisterOutcomeLookupFirst(mods, name, spec, overwrite) ==
    IF In(name, mods) /\ ~overwrite THEN "duplicate"
    ELSE IF DIEntryThrows(RegisterData(name, spec)) THEN "invalid"
    ELSE "ok"

\* How register(name, spec, overwrite) ends: the entry is constructed first,
\* then the name is looked up.
RegisterOutcome(mods, name, spec, overwrite) ==
    IF DIEntryThrows(RegisterData(name, spec)) THEN "invalid"
    ELSE IF In(name, mods) /\ ~overwrite THEN "duplicate"
    ELSE "ok"

\* A register that, replacing an entry, hands its cached instance on to the
\* new one.
RegisteredKeepingInstance(mods, ents, name, spec, overwrite) ==
    IF RegisterOutcome(mods, name, spec, overwrite) = "ok"
    THEN [modules |-> [k \in DOMAIN mods \cup {name} |->
                         IF k = name THEN Len(ents) + 1 ELSE mods[k]],
          entries |-> Append(ents,
                        [DIEntry(RegisterData(name, spec)) EXCEPT
                           !.instance = IF name \in DOMAIN mods
                                        THEN ents[mods[name]].instance
                                        ELSE NoInstance])]
    ELSE [modules |-> mods, entries |-> ents]

\* #modules and the entries after register(name, spec, overwrite).
Registered(mods, ents, name, spec, overwrite) ==
    IF RegisterOutcome(mods, name, spec, overwrite) = "ok"
    THEN [modules |-> [k \in DOMAIN mods \cup {name} |->
                         IF k = name THEN Len(ents) + 1 ELSE mods[k]],
          entries |-> Append(ents, DIEntry(RegisterData(name, spec)))]
    ELSE [modules |-> mods, entries |-> ents]

Register(name, spec, overwrite) ==
    /\ nregs < MaxRegs
    /\ nregs' = nregs + 1
    /\ lastReg' = [name |-> name, overwrite |-> overwrite,
                   outcome |-> RegisterOutcome(modules, name, spec, overwrite),
                   held |-> IF name \in DOMAIN modules
                            THEN entries[modules[name]].instance
                            ELSE NoInstance]
    /\ LET r == Registered(modules, entries, name, spec, overwrite) IN
         /\ modules' = r.modules
         /\ entries' = r.entries
    /\ UNCHANGED <<tasks, controllers, web>>

\* What the 'initcontainer' listeners register before the first request
\* (index.js registers 'vault' there): one dependency, or two.
Reg(name, spec, overwrite) == [name |-> name, spec |-> spec, overwrite |-> overwrite]

Startups ==
    { << >> }
    \cup { << Reg("vault", s, TRUE) >> : s \in Specs \cup FailingSpecs \cup EnumSpecs }
    \cup { << Reg("vault", DISpec("none", "object", "none", "Lifetime"), FALSE),
              Reg("toString", DISpec("class", "none", "none", "absent"), TRUE) >> }

RECURSIVE AfterStartup(_, _, _)
AfterStartup(mods, ents, regs) ==
    IF regs = << >> THEN [modules |-> mods, entries |-> ents]
    ELSE LET r == Registered(mods, ents, Head(regs).name, Head(regs).spec,
                             Head(regs).overwrite)
         IN AfterStartup(r.modules, r.entries, Tail(regs))

\* AdminController: constructor(settings, vault), getUsers() and getUser(name)
AdminController ==
    Controller("admin", <<"settings", "vault">>,
               << Method(<<"g","e","t","U","s","e","r","s">>, << >>, "none"),
                  Method(<<"g","e","t","U","s","e","r">>, <<"name">>, "none") >>,
               FALSE)

\* controllers/defaultController.js: constructor(settings, vault) and get()
DefaultController ==
    Controller("default", <<"settings", "vault">>,
               << Method(<<"g","e","t">>, << >>, "none") >>, FALSE)

\* The table and the router once registerControllersAsync has gone through
\* the classes cs.
\* An object without properties of its own.
NoFields == [p \in {} |-> << >>]

\* No locateViewFile call has been made.
NoneLocated == [n |-> 0, last |-> NoFields, returned |-> NoFields, since |-> 0]

\* Each route is handed to the router with a handler that closes over the
\* route and the controllerName of its class.
Handlers(class) ==
    LET routes == RegisteredRoutes(class) IN
    [k \in DOMAIN routes |-> routes[k] @@ [controllerName |-> class.controllerName]]

RECURSIVE RoutesOf(_)
RoutesOf(cs) ==
    IF cs = << >> THEN << >> ELSE Handlers(Head(cs)) \o RoutesOf(Tail(cs))

TypesOf(cs) ==
    [n \in { cs[k].controllerName : k \in DOMAIN cs } |->
        ControllerSettings(cs[CHOOSE k \in DOMAIN cs :
            /\ cs[k].controllerName = n
            /\ \A j \in DOMAIN cs : cs[j].controllerName = n => j <= k])]

\* app.use(router) is called once for every class.
MountsOf(cs) == [k \in DOMAIN cs |-> cs[k].controllerName]

\* The Application once run() has started the server.
Serving ==
    [now |-> 0, lastReload |-> 0, server |-> "listening", runs |-> << >>,
     reloads |-> << >>, di |-> << >>]

Booted(cs) ==
    /\ mounts = MountsOf(cs)
    /\ app = Serving
    /\ classes = cs
    /\ controllerTypes = TypesOf(cs)
    /\ router = RoutesOf(cs)
    /\ booted = TRUE
    /\ passes = 1
    /\ requests = << >>
    /\ viewLookupCache = NoFields
    /\ files = {}
    /\ located = NoneLocated

NoReg == [name |-> "", overwrite |-> FALSE, outcome |-> "none", held |-> NoInstance]

\* The container when the server starts to take requests.
Init ==
    /\ \E regs \in Startups :
          LET r == AfterStartup(<< >>, << >>, regs) IN
            /\ modules = r.modules
            /\ entries = r.entries
    /\ nregs = 0
    /\ lastReg = NoReg
    /\ tasks = << >>
    /\ controllers = {}
    /\ Booted(<<DefaultController, AdminController>>)

\* The container as new DIContainer(app, {}) leaves it.
InitRegister ==
    /\ modules = << >>
    /\ entries = << >>
    /\ nregs = 0
    /\ lastReg = NoReg
    /\ tasks = << >>
    /\ controllers = {}
    /\ Booted(<<DefaultController, AdminController>>)

InModules(name) == In(name, modules)

\* ------------------------------------------------------------- get / fill
\* A task is one fill(requestList) call.  pc is where it is suspended:
\*   "builder"    createInstance awaits the builder's promise
\*   "configure"  createInstance awaits the configure hook's promise
\*   "assign"     get awaits createInstance's promise
\*   "resume"     fill awaits get's promise
\*   "done"       fill has returned result
\*   "failed"     fill has rejected (val is the error)
\* calls[i] records the get() call for requestList[i]:
\*   entry        the DIEntry it found (0: none)
\*   built        whether it ran the constructor or the builder
\*   prior        the get() calls of that entry that had returned when it began
\*   failed       the get() calls of that entry that had thrown when it began
\*   status       "pending" | "returned" | "threw"
\*   value        what it returned
\*   rank         it was the rank-th get() of that entry to return
\*   clean        no other get() of that entry was pending when it returned

\* The request lists fill() is called with.
RequestLists ==
    { << >> } \cup { <<k>> : k \in Keys } \cup { <<"vault", k>> : k \in Keys }

\* A get that throws for a name that is not in #modules.
GetKindUnknownThrows(key) ==
    IF ~InModules(key) THEN "nocreate"
    ELSE IF key \notin DOMAIN modules THEN "badlifespan"
    ELSE LET entry == entries[modules[key]] IN
        IF entry.lifespan = Lifetime /\ Truthy(entry.instance) THEN "cached"
        ELSE IF entry.moduleExports = "class" THEN "new"
        ELSE IF entry.builder # "none" THEN "builder"
        ELSE "nocreate"

\* What the synchronous part of get(key) does.
GetKind(key) ==
    IF ~InModules(key) THEN "undefined"
    ELSE IF key \notin DOMAIN modules THEN "badlifespan"
    ELSE LET entry == entries[modules[key]] IN
        IF entry.lifespan = Lifetime /\ Truthy(entry.instance) THEN "cached"
        ELSE IF Truthy(entry.instance) THEN "instance"
        ELSE IF entry.moduleExports = "class" THEN "new"
        ELSE IF entry.builder # "none" THEN "builder"
        ELSE "nocreate"

\* The get() calls made so far, as <<task, index>> pairs, and their records.
AllCalls == { c \in (DOMAIN tasks) \X (1..2) : c[2] \in DOMAIN tasks[c[1]].calls }
CallOf(c) == tasks[c[1]].calls[c[2]]
CallsOf(e) == { c \in AllCalls : CallOf(c).entry = e }
ReturnedOf(e) == { c \in CallsOf(e) : CallOf(c).status = "returned" }
ThrewOf(e) == { c \in CallsOf(e) : CallOf(c).status = "threw" }
PendingOf(e) == { c \in CallsOf(e) : CallOf(c).status = "pending" }

\* The record of a get() call that has returned v.
ReturnCall(call, v, self) ==
    [call EXCEPT !.status = "returned", !.value = v,
                 !.rank = Cardinality(ReturnedOf(call.entry)) + 1,
                 !.clean = (PendingOf(call.entry) \ {self} = {})]

\* A get that finds a construction of its entry under way and waits for it
\* instead of starting its own.
CallGetSharingConstruction(t, tk) ==
    LET i == Len(tk.calls) + 1
        key == tk.list[i]
        kind == GetKind(key)
        e == IF key \in DOMAIN modules THEN modules[key] ELSE 0
        call == [entry |-> e, built |-> FALSE,
                 prior |-> IF e = 0 THEN {} ELSE ReturnedOf(e),
                 failed |-> IF e = 0 THEN {} ELSE ThrewOf(e),
                 status |-> "pending", value |-> Undefined, rank |-> 0,
                 clean |-> FALSE,
                 seen |-> Len(entries)]   \* kept for the record: the entries
                                          \* registered before this get began
        go(pc, v, c) == [tk EXCEPT !.pc = pc, !.val = v, !.calls = Append(@, c)]
    IN  CASE e # 0 /\ PendingOf(e) # {} ->
               go("waiting", Undefined, call)
          [] kind = "undefined" ->
               go("resume", Undefined, [call EXCEPT !.status = "returned"])
          [] kind = "badlifespan" ->
               go("failed", InvalidLifespan, [call EXCEPT !.status = "threw"])
          [] kind = "cached" ->
               go("resume", entries[e].instance,
                  ReturnCall(call, entries[e].instance, <<t, i>>))
          [] kind = "instance" ->
               go("assign", entries[e].instance, call)
          [] kind = "new" ->
               go(IF entries[e].configure # "none" THEN "configure" ELSE "assign",
                  Constructed(t, i), [call EXCEPT !.built = TRUE])
          [] kind = "builder" ->
               go("builder", Constructed(t, i), [call EXCEPT !.built = TRUE])
          [] OTHER ->
               go("failed", FailedToCreate, [call EXCEPT !.status = "threw"])

\* Task tk (number t) calls get(requestList[i]); the synchronous part runs up
\* to get's first await, or to its return.
CallGet(t, tk) ==
    LET i == Len(tk.calls) + 1
        key == tk.list[i]
        kind == GetKind(key)
        e == IF key \in DOMAIN modules THEN modules[key] ELSE 0
        call == [entry |-> e, built |-> FALSE,
                 prior |-> IF e = 0 THEN {} ELSE ReturnedOf(e),
                 failed |-> IF e = 0 THEN {} ELSE ThrewOf(e),
                 status |-> "pending", value |-> Undefined, rank |-> 0,
                 clean |-> FALSE,
                 seen |-> Len(entries)]   \* kept for the record: the entries
                                          \* registered before this get began
        go(pc, v, c) == [tk EXCEPT !.pc = pc, !.val = v, !.calls = Append(@, c)]
    IN  CASE kind = "undefined" ->
               go("resume", Undefined, [call EXCEPT !.status = "returned"])
          [] kind = "badlifespan" ->
               go("failed", InvalidLifespan, [call EXCEPT !.status = "threw"])
          [] kind = "cached" ->
               go("resume", entries[e].instance,
                  ReturnCall(call, entries[e].instance, <<t, i>>))
          [] kind = "instance" ->
               go("assign", entries[e].instance, call)
          [] kind = "new" ->
               go(IF entries[e].configure # "none" THEN "configure" ELSE "assign",
                  Constructed(t, i), [call EXCEPT !.built = TRUE])
          [] kind = "builder" ->
               go("builder", Constructed(t, i), [call EXCEPT !.built = TRUE])
          [] OTHER ->
               go("failed", FailedToCreate, [call EXCEPT !.status = "threw"])

\* fill(requestList): the call, up to its first await.
NewTask(list) ==
    [list |-> list, calls |-> << >>, result |-> << >>, pc |-> "done",
     val |-> Undefined]

BeginFill(list) ==
    IF list = << >>
    THEN NewTask(list)
    ELSE CallGet(Len(tasks) + 1, NewTask(list))

\* How many names the fill() calls made so far have asked for.
Requested ==
    LET F[i \in 0..Len(tasks)] ==
            IF i = 0 THEN 0 ELSE F[i - 1] + Len(tasks[i].list)
    IN F[Len(tasks)]

Fill(list) ==
    /\ Len(tasks) < MaxCalls
    /\ Requested + Len(list) <= MaxNames
    /\ tasks' = Append(tasks, BeginFill(list))
    /\ UNCHANGED <<modules, entries, nregs, lastReg, controllers, web>>

FillRegistered(list) ==
    /\ Len(tasks) < MaxRegCalls
    /\ tasks' = Append(tasks, BeginFill(list))
    /\ UNCHANGED <<modules, entries, nregs, lastReg, controllers, web>>

\* The entry the pending get() of task t holds.
HeldEntry(t) == tasks[t].calls[Len(tasks[t].calls)].entry

\* createInstance resumes after `await this.builder(...)`.
BuilderResolves(t) ==
    /\ tasks[t].pc = "builder"
    /\ tasks' = [tasks EXCEPT ![t].pc =
                    IF entries[HeldEntry(t)].configure # "none"
                    THEN "configure" ELSE "assign"]
    /\ UNCHANGED <<modules, entries, nregs, lastReg, controllers, web>>

\* The get() that task t is suspended in ends with error err: neither
\* createInstance nor get nor fill catches it, and no entry is written.
Rejects(t, err) ==
    /\ tasks' = [tasks EXCEPT
                   ![t].pc = "failed",
                   ![t].val = err,
                   ![t].calls[Len(tasks[t].calls)].status = "threw"]
    /\ UNCHANGED <<modules, entries, nregs, lastReg, controllers, web>>

\* createInstance resumes after `await this.builder(...)` with a rejection.
BuilderRejects(t) ==
    /\ tasks[t].pc = "builder"
    /\ entries[HeldEntry(t)].builder = "flaky"
    /\ Rejects(t, BuilderError)

\* A hook whose exception is swallowed.
HookThrowsNever(hook) == FALSE

\* Whether `await this.configure(result, ...args)` throws.
HookThrows(hook) == hook = "throws"

\* What `await this.configure(result, ...args)` gives.
ConfigureResult(hook, result) ==
    CASE hook = "same" -> result
      [] hook = "wrap" -> Append(result, "decorator")
      [] OTHER -> Undefined

\* createInstance resumes after `await this.configure(...)` and returns.
ConfigureResolves(t) ==
    /\ tasks[t].pc = "configure"
    /\ IF HookThrows(entries[HeldEntry(t)].configure)
       THEN Rejects(t, ConfigureError)
       ELSE /\ tasks' = [tasks EXCEPT
                   ![t].pc = "assign",
                   ![t].val = ConfigureResult(entries[HeldEntry(t)].configure, @)]
            /\ UNCHANGED <<modules, entries, nregs, lastReg, controllers, web>>

\* A get that stores no instance.
AssignInstanceNever(entry, v) == entry

\* A get that stores the instance whatever the lifespan.
AssignInstanceAlways(entry, v) == [entry EXCEPT !.instance = v]

\* A get that stores the instance only while none is stored.
AssignInstanceOnce(entry, v) ==
    IF entry.lifespan = Lifetime /\ ~Truthy(entry.instance)
    THEN [entry EXCEPT !.instance = v] ELSE entry

\* The entry after get resumes with value v.
AssignInstance(entry, v) ==
    IF entry.lifespan = Lifetime THEN [entry EXCEPT !.instance = v] ELSE entry

\* get resumes after `await entry.createInstance(...)`, stores the instance of
\* a Lifetime entry, and returns.
GetResumes(t) ==
    /\ tasks[t].pc = "assign"
    /\ LET i == Len(tasks[t].calls)
           e == HeldEntry(t)
       IN /\ entries' = [entries EXCEPT ![e] = AssignInstance(@, tasks[t].val)]
          /\ tasks' = [tasks EXCEPT
                         ![t].pc = "resume",
                         ![t].calls[i] = ReturnCall(@, tasks[t].val, <<t, i>>)]
    /\ UNCHANGED <<modules, nregs, lastReg, controllers, web>>

\* A fill that puts what it resolved at the front of result.
StoreResultAtFront(result, v) == <<v>> \o result

\* result[i] = v, for the i that follows the positions already stored.
StoreResult(result, v) == Append(result, v)

\* fill resumes after `await this.get(requestList[i])`: stores result[i] and
\* either calls get for the next name or returns.
FillResumes(t) ==
    /\ tasks[t].pc = "resume"
    /\ LET tk == [tasks[t] EXCEPT !.result = StoreResult(@, tasks[t].val)]
       IN tasks' = [tasks EXCEPT ![t] =
                      IF Len(tk.calls) >= Len(tk.list)
                      THEN [tk EXCEPT !.pc = "done"]
                      ELSE CallGet(t, tk)]
    /\ UNCHANGED <<modules, entries, nregs, lastReg, controllers, web>>

\* --------------------------------------------------------- createController
\* application.container.fill(...) is not awaited: what createController
\* holds in `dependencies` is the promise of the fill() call t.
FillPromise(t) == [kind |-> "promise", of |-> t]

\* new controllerType(instanceSettings, ...dependencies): spreading takes an
\* iterable, and a promise is none.
Construct(name, t, dependencies) ==
    IF dependencies.kind = "array"
    THEN [name |-> name, task |-> t, outcome |-> "constructed",
          args |-> dependencies.items]
    ELSE [name |-> name, task |-> t, outcome |-> "TypeError", args |-> << >>]

ControllerNames == {"default", "missing", "toString"}

\* The TypeError of spreading a promise, of reading .length of undefined and
\* of `p in undefined`.
TypeError == <<"TypeError">>

\* `controllerName in controllerTypes`: controllerTypes is a plain object.
IsControllerType(name) == In(name, controllerTypes)

\* fill(undefined): reading requestList.length throws inside the async
\* function, so the call returns a rejected promise.
FillOfUndefined == [NewTask(<< >>) EXCEPT !.pc = "failed", !.val = TypeError]

\* The fill() call createController(…, name, …) makes, as task t.
ControllerFill(name) ==
    IF name \in DOMAIN controllerTypes
    THEN BeginFill(controllerTypes[name].constructorParameters)
    ELSE FillOfUndefined

\* createController(application, name, request, response) as a call from
\* outside a route handler.
CreateController(name) ==
    /\ Len(tasks) < MaxCalls
    /\ Requested < MaxNames
    /\ Cardinality(controllers) < MaxControllers
    /\ IF IsControllerType(name)
       THEN LET t == Len(tasks) + 1 IN
            /\ tasks' = Append(tasks, ControllerFill(name))
            /\ controllers' = controllers \cup {Construct(name, t, FillPromise(t))}
       ELSE /\ controllers' = controllers \cup
                 {[name |-> name, task |-> 0, outcome |-> "notfound", args |-> << >>]}
            /\ UNCHANGED tasks
    /\ UNCHANGED <<modules, entries, nregs, lastReg, web>>

\* ------------------------------------------------------------ route handler
\* A request: request.params, request.body, and whether a body parser has
\* set request.body at all.
Request(params, body, parsed) == [params |-> params, body |-> body, parsed |-> parsed]

RequestPool ==
    { Request(NoFields, NoFields, FALSE),
      Request([name |-> <<"42">>], [name |-> <<"b">>], TRUE) }

\* What route.parameters.map(...) gives for parameter p.
Bound(p, request) ==
    IF p \in DOMAIN request.params THEN request.params[p]
    ELSE IF p \in DOMAIN request.body THEN request.body[p]
    ELSE Undefined

\* `p in request.body` throws when request.body is undefined.
ParameterListThrows(route, request) ==
    \E i \in DOMAIN route.parameters :
        route.parameters[i] \notin DOMAIN request.params /\ ~request.parsed

ParameterList(route, request) ==
    [i \in DOMAIN route.parameters |-> Bound(route.parameters[i], request)]

\* The handler of a synthesized route, from the request up to its first
\* await or to its end.  createController runs first; when it throws, the
\* catch block hands the error to application.handleError and the handler
\* returns.  Otherwise parameterList is built and the action is called.
Handled(name, route, request, t) ==
    LET controller == Construct(name, t, FillPromise(t))
        base == [controllerName |-> name, route |-> route.name,
                 request |-> request, task |-> t, controller |-> controller,
                 called |-> FALSE, args |-> << >>, handled |-> << >>]
    IN  IF controller.outcome # "constructed"
        THEN [base EXCEPT !.handled = <<TypeError>>]
        ELSE IF ParameterListThrows(route, request)
        THEN [base EXCEPT !.handled = <<TypeError>>]
        ELSE [base EXCEPT !.called = TRUE, !.args = ParameterList(route, request)]

RouteHandler(i, request) ==
    /\ Len(requests) < MaxRequests
    /\ LET route == router[i]
           name == route.controllerName
           t == Len(tasks) + 1
       IN /\ tasks' = Append(tasks, ControllerFill(name))
          /\ requests' = Append(requests, Handled(name, route, request, t))
    /\ UNCHANGED <<modules, entries, nregs, lastReg, controllers, classes,
                   controllerTypes, router, booted, passes, views, mounts, app>>

Resume ==
    \/ \E t \in DOMAIN tasks : BuilderResolves(t)
    \/ \E t \in DOMAIN tasks : ConfigureResolves(t)
    \/ \E t \in DOMAIN tasks : GetResumes(t)
    \/ \E t \in DOMAIN tasks : FillResumes(t)

Next ==
    \/ \E list \in RequestLists : Fill(list)
    \/ \E name \in ControllerNames : CreateController(name)
    \/ Resume
    \/ \E t \in DOMAIN tasks : BuilderRejects(t)

Spec == Init /\ [][Next]_vars

NextRegister ==
    \/ \E name \in Keys, spec \in Specs, overwrite \in BOOLEAN :
          Register(name, spec, overwrite)
    \/ \E k \in Keys : FillRegistered(<<k>>)
    \/ Resume

SpecRegister == InitRegister /\ [][NextRegister]_vars

\* What 'vault' is registered as, first and again: a class, a builder, and a
\* Transient class with a configure hook.
Replacements ==
    { DISpec("class", "none", "none", "absent"),
      DISpec("none", "object", "none", "Lifetime"),
      DISpec("class", "none", "wrap", "SingleUse") }

\* A container whose 'vault' is registered, then resolved and registered
\* again in any order.
InitOverwrite ==
    /\ \E s \in Replacements :
          LET r == AfterStartup(<< >>, << >>, << Reg("vault", s, FALSE) >>) IN
            /\ modules = r.modules
            /\ entries = r.entries
    /\ nregs = 0
    /\ lastReg = NoReg
    /\ tasks = << >>
    /\ controllers = {}
    /\ Booted(<<DefaultController, AdminController>>)

NextOverwrite ==
    \/ \E spec \in Replacements, overwrite \in BOOLEAN :
          Register("vault", spec, overwrite)
    \/ Fill(<<"vault">>)
    \/ Resume

SpecOverwrite == InitOverwrite /\ [][NextOverwrite]_vars

\* ----------------------------------------------------------------- requests
\* The server taking requests: 'vault' is registered as index.js does (a
\* builder that logs in over the network), as a class, or as a class with a
\* hook, and every request is for a synthesized route.
StartupsRequests ==
    { << Reg("vault", DISpec("none", "flaky", "none", "Lifetime"), FALSE) >>,
      << Reg("vault", DISpec("class", "none", "none", "absent"), FALSE) >>,
      << Reg("vault", DISpec("class", "none", "wrap", "SingleUse"), FALSE) >> }

InitRequests ==
    /\ \E regs \in StartupsRequests :
          LET r == AfterStartup(<< >>, << >>, regs) IN
            /\ modules = r.modules
            /\ entries = r.entries
    /\ nregs = 0
    /\ lastReg = NoReg
    /\ tasks = << >>
    /\ controllers = {}
    /\ Booted(<<DefaultController, AdminController>>)

NextRequests ==
    \/ \E i \in DOMAIN router, request \in RequestPool : RouteHandler(i, request)
    \/ Resume
    \/ \E t \in DOMAIN tasks : BuilderRejects(t)

SpecRequests == InitRequests /\ [][NextRequests]_vars

\* ------------------------------------------------------------ hung builders
\* The promise of the builder that task t awaits never settles.
BuilderHangs(t) ==
    /\ tasks[t].pc = "builder"
    /\ tasks' = [tasks EXCEPT ![t].pc = "hung"]
    /\ UNCHANGED <<modules, entries, nregs, lastReg, controllers, web>>

\* The continuations of task t: each runs once the promise it awaits settles.
Settling(t) ==
    /\ t \in DOMAIN tasks
    /\ \/ BuilderResolves(t)
       \/ BuilderRejects(t)
       \/ ConfigureResolves(t)
       \/ GetResumes(t)
       \/ FillResumes(t)

\* The server with the 'default' controller and a 'vault' dependency made by
\* an asynchronous builder and a configure hook.
InitHung ==
    /\ LET r == AfterStartup(<< >>, << >>,
                   << Reg("vault", DISpec("none", "flaky", "wrap", "Lifetime"), FALSE) >>)
       IN /\ modules = r.modules
          /\ entries = r.entries
    /\ nregs = 0
    /\ lastReg = NoReg
    /\ tasks = << >>
    /\ controllers = {}
    /\ Booted(<<DefaultController>>)

NextHung ==
    \/ NextRequests
    \/ \E t \in DOMAIN tasks : BuilderHangs(t)

\* Requests with builders that may hang; every promise that is not hung
\* settles and its continuation runs.
SpecHung ==
    /\ InitHung
    /\ [][NextHung]_vars
    /\ \A t \in 1..MaxRequests : WF_vars(Settling(t))

\* ----------------------------------------------------------- locateViewFile
\* Texts are tuples of characters; the empty tuple also stands for the falsy
\* values an omitted argument has (view = false, extension = false).
JsLastIndexOf(text, pat) ==
    LET found == { j \in 0..(Len(text) - Len(pat)) :
                     SubSeq(text, j + 1, j + Len(pat)) = pat }
    IN IF found = {} THEN -1
       ELSE CHOOSE j \in found : \A k \in found : k <= j

\* text.split(sep) and parts.join(sep)
RECURSIVE SplitAt(_, _)
SplitAt(text, sep) ==
    LET n == JsIndexOf(text, sep, 0) IN
    IF n = -1 THEN <<text>>
    ELSE <<JsSlice(text, 0, n)>> \o SplitAt(JsSlice(text, n + Len(sep), Len(text)), sep)

RECURSIVE JoinWith(_, _)
JoinWith(parts, sep) ==
    IF parts = << >> THEN << >>
    ELSE IF Len(parts) = 1 THEN parts[1]
    ELSE parts[1] \o sep \o JoinWith(Tail(parts), sep)

Html == <<".", "h", "t", "m", "l">>
Ejs == <<".", "e", "j", "s">>
IndexView == <<"i", "n", "d", "e", "x">>
IndexHtmlView == <<"i", "n", "d", "e", "x", ".", "h", "t", "m", "l">>
NestedHtmlView == <<"x", "/", "i", "n", "d", "e", "x", ".", "h", "t", "m", "l">>

\* config.getValue('server.viewExtensions', ['.html']), for a configuration
\* that allows two extensions.
ViewExtensions == <<Html, Ejs>>

\* viewSearchPath of the controller: its own view directory, then a shared one.
ViewSearchPath == << <<"/", "v">>, <<"/", "s">> >>

\* path.resolve(p, view), for paths without '.' and '..' segments.
PathResolve(p, view) ==
    IF view # << >> /\ Head(view) = "/" THEN view ELSE p \o <<"/">> \o view

\* e.charAt(0) === '.' ? e : '.' + e
WithDot(e) == IF e # << >> /\ Head(e) = "." THEN e ELSE <<".">> \o e

\* lists.flat()
RECURSIVE Flat(_)
Flat(lists) == IF lists = << >> THEN << >> ELSE Head(lists) \o Flat(Tail(lists))

\* this.viewPath.flatMap(p => viewExtensions.map(e => ...))
Candidates(paths, view, exts) ==
    Flat([k \in DOMAIN paths |->
            [e \in DOMAIN exts |-> PathResolve(paths[k], view) \o WithDot(exts[e])]])

\* The position of the first file of viewList that existsSync finds (0: none).
FirstExisting(viewList, fs) ==
    IF \E k \in DOMAIN viewList : viewList[k] \in fs
    THEN CHOOSE k \in DOMAIN viewList :
            /\ viewList[k] \in fs
            /\ \A j \in DOMAIN viewList : viewList[j] \in fs => k <= j
    ELSE 0

\* cache[key] = result
Cached(cache, key, result) ==
    [k \in DOMAIN cache \cup {key} |-> IF k = key THEN result ELSE cache[k]]

\* locateViewFile(view, extension, throwIfNotFound) on a controller whose
\* cache is cache, with fs the files on disk; current is the defaultView of
\* the action found on the stack (empty: none), id names the object a miss
\* creates.  Gives how the call ends, the result (or what the error
\* carries), the cache afterwards and the files existsSync was asked about.
LocateViewFile(view, extension, throwIfNotFound, current, cache, fs, id) ==
    LET asked == IF view = << >> THEN current ELSE view
        filePart == JsSlice(asked, JsLastIndexOf(asked, <<"/">>) + 1, Len(asked))
        fileParts == SplitAt(filePart, <<".">>)
        existingExtension ==
            IF Len(fileParts) > 1 THEN fileParts[Len(fileParts)] ELSE << >>
        key == IF existingExtension # << >>
               THEN JoinWith(SubSeq(fileParts, 1, Len(fileParts) - 1), <<".">>)
               ELSE asked
        viewExtensions ==
            IF existingExtension # << >> THEN <<existingExtension>>
            ELSE IF extension # << >> THEN <<extension>>
            ELSE ViewExtensions
        viewList == Candidates(ViewSearchPath, key, viewExtensions)
        at == FirstExisting(viewList, fs)
        end(outcome, result, after, probes) ==
            [asked |-> asked, outcome |-> outcome, result |-> result,
             cache |-> after, probes |-> probes]
        made(viewFile) == [viewFile |-> viewFile, viewList |-> viewList, id |-> id]
    IN  IF asked \in DOMAIN cache
        THEN end("returned", cache[asked], cache, << >>)
        ELSE IF asked = << >>
        THEN end("TypeError", made(<< >>), cache, << >>)
        ELSE IF at > 0
        THEN end("returned", made(viewList[at]),
                 Cached(cache, key, made(viewList[at])), SubSeq(viewList, 1, at))
        ELSE IF throwIfNotFound
        THEN end("ViewNotFoundError", made(<< >>), cache, viewList)
        ELSE end("returned", made(<< >>), Cached(cache, key, made(<< >>)), viewList)

\* One locateViewFile call on a 'default' controller.
Locate(view, extension, throwIfNotFound, current) ==
    /\ located.n < MaxLocates
    /\ \E r \in {LocateViewFile(view, extension, throwIfNotFound, current,
                                 viewLookupCache, files, located.n + 1)} :
          /\ viewLookupCache' = r.cache
          /\ located' =
               [n |-> located.n + 1,
                last |-> [asked |-> r.asked, extension |-> extension,
                          throwIfNotFound |-> throwIfNotFound,
                          outcome |-> r.outcome, result |-> r.result,
                          probes |-> r.probes],
                returned |-> IF r.outcome = "returned"
                             THEN Cached(located.returned, r.asked, r.result)
                             ELSE located.returned,
                since |-> located.since]
    /\ UNCHANGED <<modules, entries, nregs, lastReg, tasks, controllers, classes,
                   controllerTypes, router, booted, passes, requests, files,
                   mounts, app>>

\* The view files there may be.
FilePool == { <<"/", "v", "/", "i", "n", "d", "e", "x", ".", "h", "t", "m", "l">>, <<"/", "v", "/", "i", "n", "d", "e", "x", ".", "e", "j", "s">>, <<"/", "s", "/", "i", "n", "d", "e", "x", ".", "h", "t", "m", "l">>, <<"/", "s", "/", "i", "n", "d", "e", "x", ".", "e", "j", "s">> }

InitViews ==
    /\ modules = << >>
    /\ entries = << >>
    /\ nregs = 0
    /\ lastReg = NoReg
    /\ tasks = << >>
    /\ controllers = {}
    /\ classes = <<DefaultController>>
    /\ controllerTypes = TypesOf(classes)
    /\ router = RoutesOf(classes)
    /\ booted = TRUE
    /\ passes = 1
    /\ requests = << >>
    /\ viewLookupCache = NoFields
    /\ files \in SUBSET FilePool
    /\ located = NoneLocated
    /\ mounts = MountsOf(classes)
    /\ app = Serving

\* ------------------------------------------------ registerControllersAsync
\* The methods a scanned class may declare.
MethodPool ==
    { Method(<<"g","e","t">>, << >>, "none"),
      Method(<<"g","e","t","U","s","e","r","s">>, << >>, "none"),
      Method(<<"g","e","t","A","b","o","u","t">>, << >>, "none"),
      Method(<<"g","e","t","U","s","e","r">>, <<"name">>, "none"),
      Method(<<"p","o","s","t","U","s","e","r">>, <<"name", "email">>, "none"),
      Method(<<"f","o","r","g","e","t">>, << >>, "none"),
      Method(<<"g","e","t","I","t","e","m","s">>, <<"id">>, "/items"),
      Method(<<"g","e","t","I","t","e","m">>, <<"id">>, "/item/:id") }

\* The declarations of a class: up to MaxMethods methods, in any order.
MethodLists ==
    { ms \in UNION { [1..n -> MethodPool] : n \in 0..MaxMethods } :
        \A j, k \in DOMAIN ms : j # k => ms[j].name # ms[k].name }

InitRoutes ==
    /\ modules = << >>
    /\ entries = << >>
    /\ nregs = 0
    /\ lastReg = NoReg
    /\ tasks = << >>
    /\ controllers = {}
    /\ \E ms \in MethodLists,
          ctor \in {<< >>, <<"settings">>, <<"settings", "vault">>},
          own \in BOOLEAN :
          classes = << Controller("home", ctor, ms, own) >>
    /\ controllerTypes = << >>
    /\ router = << >>
    /\ booted = FALSE
    /\ passes = 0
    /\ requests = << >>
    /\ viewLookupCache = NoFields
    /\ files = {}
    /\ located = NoneLocated
    /\ mounts = << >>
    /\ app = [Serving EXCEPT !.server = "none"]

\* registerControllersAsync: every class is scanned, its routes are handed to
\* the router in the order of sortedRoutes, and its settings are stored.
\* getControllerViewCache hands every controller name the cache it has, so
\* the view caches stay as they are; located.since marks the pass.
Registration ==
    /\ booted' = TRUE
    /\ passes' = passes + 1
    /\ router' = RoutesOf(classes)
    /\ controllerTypes' =
         [n \in DOMAIN controllerTypes \cup DOMAIN TypesOf(classes) |->
            IF n \in DOMAIN TypesOf(classes) THEN TypesOf(classes)[n]
            ELSE controllerTypes[n]]
    /\ located' = [located EXCEPT !.since = located.n]
    /\ mounts' = MountsOf(classes)
    /\ UNCHANGED <<classes, requests, viewLookupCache, files>>

\* One pass of registerControllersAsync, at the start or on a reload.
RegisterControllers ==
    /\ passes < MaxPasses
    /\ Registration
    /\ UNCHANGED <<modules, entries, nregs, lastReg, tasks, controllers, app>>

NextRoutes == RegisterControllers

SpecRoutes == InitRoutes /\ [][NextRoutes]_vars

\* locateViewFile calls, and reloads of the configuration between them.
NextViews ==
    \/ \E view \in {<< >>, IndexView, IndexHtmlView, NestedHtmlView},
          extension \in {<< >>, Ejs}, throwIfNotFound \in BOOLEAN :
           \E current \in (IF view = << >> THEN {<< >>, IndexView} ELSE {<< >>}) :
              Locate(view, extension, throwIfNotFound, current)
    \/ RegisterControllers

SpecViews == InitViews /\ [][NextViews]_vars

\* ---------------------------------------------------------- Application.run
\* What the configuration file may hold under 'app.di', in the order of
\* Object.entries: nothing, or one valid dependency.
Contents ==
    { << >>, << [name |-> "vault", spec |-> DISpec("class", "none", "none", "absent")] >> }

\* The loop of the DIContainer constructor over Object.entries(content):
\* register(key, value) for each, stopping at the first that throws.
RECURSIVE RegisterAll(_, _, _)
RegisterAll(mods, ents, content) ==
    IF content = << >> THEN [threw |-> FALSE, modules |-> mods, entries |-> ents]
    ELSE IF RegisterOutcome(mods, Head(content).name, Head(content).spec, FALSE) # "ok"
    THEN [threw |-> TRUE, modules |-> mods, entries |-> ents]
    ELSE LET r == Registered(mods, ents, Head(content).name, Head(content).spec, FALSE)
         IN RegisterAll(r.modules, r.entries, Tail(content))

\* new DIContainer(app, content): #modules is content itself (0 stands for a
\* value that is no DIEntry), then every key of content is registered.
NewDIContainer(content) ==
    RegisterAll([n \in { content[k].name : k \in DOMAIN content } |-> 0], << >>, content)

\* What the 'initcontainer' listener of index.js registers.
InitContainer == << Reg("vault", DISpec("none", "flaky", "none", "Lifetime"), FALSE) >>

\* A guard that lets every reload through.
ReloadIgnoredNever(a) == FALSE

\* this.#server?.listening && (Date.now() - this.#lastReload) < 1000
ReloadIgnored(a) == a.server = "listening" /\ a.now - a.lastReload < Window

\* The run() executions that are between their first await and their end.
Rebuilding(a) == { r \in DOMAIN a.runs : a.runs[r].pc \in {"readFile", "readdir"} }

\* index.js: await app.run()
Start ==
    /\ app.runs = << >>
    /\ app.server = "none"
    /\ app' = [app EXCEPT !.runs = <<[pc |-> "readFile", reload |-> FALSE]>>]
    /\ UNCHANGED <<modules, entries, nregs, lastReg, tasks, controllers, classes,
                   controllerTypes, router, booted, passes, requests, views, mounts>>

\* The fs.watch callback: run(true), up to its first await.  A request that
\* is skipped returns at once; one that is not emits 'config.reloading',
\* closes the server when it listens, and goes on to read the file.  The
\* first callback comes after index.js has called run().
ConfigChanged ==
    /\ app.runs # << >>
    /\ Len(app.reloads) < MaxReloads
    /\ LET ignored == ReloadIgnored(app)
           closes == ~ignored /\ app.server = "listening"
           request == [at |-> app.now, last |-> app.lastReload, ignored |-> ignored,
                       emitted |-> ~ignored, closed |-> closes,
                       run |-> IF ignored THEN 0 ELSE Len(app.runs) + 1]
       IN app' = [app EXCEPT
                    !.reloads = Append(@, request),
                    !.server = IF closes THEN "closed" ELSE @,
                    !.runs = IF ignored THEN @
                             ELSE Append(@, [pc |-> "readFile", reload |-> TRUE])]
    /\ UNCHANGED <<modules, entries, nregs, lastReg, tasks, controllers, classes,
                   controllerTypes, router, booted, passes, requests, views, mounts>>

\* run() after readFile: the configuration, the express app and the container
\* are made anew and the listeners register their dependencies; then
\* registerControllersAsync starts and awaits readdir.  When the DIContainer
\* constructor throws, run() rejects there.
ReadFileDone(r) ==
    /\ app.runs[r].pc = "readFile"
    /\ LET made == NewDIContainer(app.di) IN
       IF made.threw
       THEN /\ app' = [app EXCEPT !.runs[r].pc = "failed"]
            /\ UNCHANGED <<modules, entries>>
       ELSE /\ app' = [app EXCEPT !.runs[r].pc = "readdir"]
            /\ LET c == AfterStartup(made.modules, made.entries, InitContainer) IN
                 /\ modules' = c.modules
                 /\ entries' = c.entries
    /\ UNCHANGED <<nregs, lastReg, tasks, controllers, classes, controllerTypes,
                   router, booted, passes, requests, views, mounts>>

\* run() after readdir: the controllers are registered and startServer closes
\* a server that listens, notes the time and listens anew.
ReaddirDone(r) ==
    /\ app.runs[r].pc = "readdir"
    /\ Registration
    /\ app' = [app EXCEPT !.runs[r].pc = "done",
                          !.lastReload = app.now,
                          !.server = "listening"]
    /\ UNCHANGED <<modules, entries, nregs, lastReg, tasks, controllers>>

\* Time passes.
Tick ==
    /\ app.now < MaxTime
    /\ app' = [app EXCEPT !.now = @ + TickMs]
    /\ UNCHANGED <<modules, entries, nregs, lastReg, tasks, controllers, classes,
                   controllerTypes, router, booted, passes, requests, views, mounts>>

\* new Application(settings), before index.js calls run().
InitReload ==
    /\ modules = << >>
    /\ entries = << >>
    /\ nregs = 0
    /\ lastReg = NoReg
    /\ tasks = << >>
    /\ controllers = {}
    /\ classes = <<DefaultController>>
    /\ controllerTypes = << >>
    /\ router = << >>
    /\ booted = FALSE
    /\ passes = 0
    /\ requests = << >>
    /\ viewLookupCache = NoFields
    /\ files = {}
    /\ located = NoneLocated
    /\ mounts = << >>
    /\ \E content \in Contents :
          app = [now |-> 0, lastReload |-> -1, server |-> "none", runs |-> << >>,
                 reloads |-> << >>, di |-> content]

NextReload ==
    \/ Start
    \/ ConfigChanged
    \/ \E r \in DOMAIN app.runs : ReadFileDone(r)
    \/ \E r \in DOMAIN app.runs : ReaddirDone(r)
    \/ Tick

SpecReload == InitReload /\ [][NextReload]_vars

\* ================================================================= claims
\* The key a get() call was made for, and whether its entry is a Lifetime one.
KeyOf(c) == tasks[c[1]].list[c[2]]
IsLifetimeCall(c) ==
    CallOf(c).entry # 0 /\ entries[CallOf(c).entry].lifespan = Lifetime
IsSingleUseCall(c) ==
    CallOf(c).entry # 0 /\ entries[CallOf(c).entry].lifespan = SingleUse

\* q is a get() of the entry of p that began after p had returned.
Follows(q, p) ==
    /\ IsLifetimeCall(p)
    /\ CallOf(q).entry = CallOf(p).entry
    /\ p \in CallOf(q).prior
    /\ CallOf(q).status = "returned"

\* C1, as claimed: two get() calls of one Lifetime key, the second begun after
\* the first returned and nothing registered in between, return the identical
\* instance.
C1_SequentialResolvesIdentical ==
    \A p \in AllCalls, q \in AllCalls :
        Follows(q, p) => CallOf(q).value = CallOf(p).value

\* C1, amended: they return the identical instance when no other get() of that
\* key was still in flight at the moment the first one returned.
C1_SequentialResolvesIdenticalWhenAlone ==
    LET calls == AllCalls IN
    \A p \in calls : CallOf(p).clean =>
        \A q \in calls : Follows(q, p) => CallOf(q).value = CallOf(p).value

C1_Witness ==
    \E p \in AllCalls, q \in AllCalls :
        /\ Follows(q, p)
        /\ CallOf(p).clean
        /\ CallOf(p).built
        /\ Truthy(CallOf(p).value)
        /\ CallOf(q).value = CallOf(p).value

\* C2: a get() of a SingleUse key always constructs, what it returns is an
\* object no other get() of that key returned, and the entry never holds an
\* instance.
C2_TransientAlwaysFresh ==
    LET calls == AllCalls IN
    /\ \A e \in DOMAIN entries :
          entries[e].lifespan = SingleUse => entries[e].instance = NoInstance
    /\ \A c \in calls : IsSingleUseCall(c) =>
          /\ CallOf(c).built
          /\ (CallOf(c).status = "returned" /\ Truthy(CallOf(c).value)) =>
                \A d \in calls \ {c} :
                    (CallOf(d).entry = CallOf(c).entry /\ CallOf(d).status = "returned")
                    => CallOf(d).value # CallOf(c).value

C2_Witness ==
    \E c \in AllCalls, d \in AllCalls :
        /\ IsSingleUseCall(c)
        /\ c # d
        /\ CallOf(d).entry = CallOf(c).entry
        /\ CallOf(c).status = "returned" /\ Truthy(CallOf(c).value)
        /\ CallOf(d).status = "returned" /\ Truthy(CallOf(d).value)
        /\ c \in CallOf(d).prior

\* c is the get() of its entry that returned last.
ReturnedLast(c, calls) ==
    /\ CallOf(c).status = "returned"
    /\ \A d \in calls :
          (CallOf(d).entry = CallOf(c).entry /\ CallOf(d).status = "returned")
          => CallOf(d).rank <= CallOf(c).rank

\* C3: when two get() calls of one Lifetime key both ran the construction
\* (both found the cache empty), they return different instances, and the
\* entry holds the instance of the call that returned last.
C3_RaceKeepsLastInstance ==
    LET calls == AllCalls IN
    \A p \in calls : IsLifetimeCall(p) =>
        /\ (CallOf(p).built /\ CallOf(p).status = "returned" /\ Truthy(CallOf(p).value)) =>
              \A q \in calls \ {p} :
                  (/\ CallOf(q).entry = CallOf(p).entry
                   /\ CallOf(q).built /\ CallOf(q).status = "returned")
                  => CallOf(p).value # CallOf(q).value
        /\ ReturnedLast(p, calls) =>
              entries[CallOf(p).entry].instance = CallOf(p).value

\* The race itself: two get() calls of a builder-made Lifetime key have both
\* constructed and returned different instances, and the first one's instance
\* is no longer the cached one.
C3_Witness ==
    \E p \in AllCalls, q \in AllCalls :
        /\ IsLifetimeCall(p) /\ CallOf(q).entry = CallOf(p).entry
        /\ entries[CallOf(p).entry].builder # "none"
        /\ CallOf(p).built /\ CallOf(q).built
        /\ CallOf(p).status = "returned" /\ CallOf(q).status = "returned"
        /\ CallOf(p).rank < CallOf(q).rank
        /\ CallOf(p).value # CallOf(q).value
        /\ entries[CallOf(p).entry].instance = CallOf(q).value

\* C4, as claimed: a Lifetime key made from a class-shaped module, with no
\* hook, is constructed at most once, however the get() calls interleave.
C4_NonSuspendingConstructsOnce ==
    \A e \in DOMAIN entries :
        (/\ entries[e].lifespan = Lifetime
         /\ entries[e].moduleExports = "class"
         /\ entries[e].configure = "none")
        => Cardinality({ c \in CallsOf(e) : CallOf(c).built }) <= 1

\* C5, as claimed: get() of a name that is not registered fails.
C5_UnknownNameFails ==
    \A c \in AllCalls :
        KeyOf(c) \notin DOMAIN modules => CallOf(c).status = "threw"

\* C5, amended: get() of a name that is not registered returns undefined and
\* constructs nothing; only for a name #modules inherits (toString) does it
\* throw, and then the invalid-lifespan error.
C5_UnknownNameGivesUndefined ==
    \A c \in AllCalls :
        KeyOf(c) \notin DOMAIN modules =>
            IF KeyOf(c) \in ObjectPrototypeKeys
            THEN CallOf(c).status = "threw"
            ELSE /\ CallOf(c).status = "returned"
                 /\ CallOf(c).value = Undefined
                 /\ ~CallOf(c).built

C5_Witness ==
    \E c \in AllCalls :
        /\ KeyOf(c) \notin DOMAIN modules
        /\ KeyOf(c) \notin ObjectPrototypeKeys
        /\ CallOf(c).status = "returned"
        /\ tasks[c[1]].pc = "done"

\* C6, as claimed: register without overwrite ends in the duplicate error
\* exactly when the name was registered before, and a failed register changes
\* neither the entries nor their instances.
C6_DuplicateIffRegistered ==
    [][ (nregs' # nregs /\ ~lastReg'.overwrite) =>
          /\ (lastReg'.outcome = "duplicate") <=> (lastReg'.name \in DOMAIN modules)
          /\ (lastReg'.outcome # "ok") => (modules' = modules /\ entries' = entries)
      ]_vars

\* C7: register with a spec that has neither a module nor a builder ends in
\* the invalid-dependency error and changes neither #modules nor any entry,
\* whatever the name and whatever overwrite is.
C7_InvalidSpecRejected ==
    [][ \A name \in Keys, spec \in Specs, overwrite \in BOOLEAN :
          (/\ spec.module = "none" /\ spec.builder = "none"
           /\ Register(name, spec, overwrite))
          => (/\ lastReg'.outcome = "invalid"
              /\ modules' = modules
              /\ entries' = entries)
      ]_vars

C7_Witness ==
    /\ lastReg.outcome = "invalid"
    /\ lastReg.overwrite
    /\ lastReg.name \in DOMAIN modules
    /\ Truthy(entries[modules[lastReg.name]].instance)

\* C8: a fill that has returned holds, at every position, what get() returned
\* for the name at that position; the get() for a position begins only when
\* the one before it has returned and been stored; and once a get() has
\* thrown, the fill makes no further get().
C8_FillSequential ==
    \A t \in DOMAIN tasks :
        LET tk == tasks[t] IN
        /\ tk.pc = "done" =>
              /\ Len(tk.result) = Len(tk.list)
              /\ Len(tk.calls) = Len(tk.list)
              /\ \A i \in DOMAIN tk.list :
                    /\ tk.calls[i].status = "returned"
                    /\ tk.result[i] = tk.calls[i].value
        /\ \A i \in DOMAIN tk.calls :
              /\ tk.calls[i].entry =
                    (IF tk.list[i] \in DOMAIN modules THEN modules[tk.list[i]] ELSE 0)
              /\ i > 1 => (/\ tk.calls[i - 1].status = "returned"
                           /\ Len(tk.result) >= i - 1
                           /\ tk.result[i - 1] = tk.calls[i - 1].value)
              /\ tk.calls[i].status = "threw" => (i = Len(tk.calls) /\ tk.pc = "failed")

C8_Witness ==
    \E t \in DOMAIN tasks :
        /\ tasks[t].pc = "done"
        /\ Len(tasks[t].list) = 2
        /\ tasks[t].calls[1].built /\ tasks[t].calls[2].built
        /\ Truthy(tasks[t].result[1]) /\ Truthy(tasks[t].result[2])
        /\ tasks[t].result[1] # tasks[t].result[2]

\* C9, as claimed: createController of a registered controller constructs it
\* with the instances resolved for its constructorParameters.
C9_ControllerGetsResolvedDependencies ==
    \A c \in controllers :
        c.name \in DOMAIN controllerTypes =>
            /\ c.outcome = "constructed"
            /\ Len(c.args) = Len(controllerTypes[c.name].constructorParameters)
            /\ \A i \in DOMAIN c.args :
                  /\ tasks[c.task].calls[i].status = "returned"
                  /\ c.args[i] = tasks[c.task].calls[i].value

\* Whether every method of the class is a convention method.
ConventionOnly(class) ==
    /\ ~class.registerRoutes
    /\ \A k \in DOMAIN class.methods :
          /\ class.methods[k].urlPath = "none"
          /\ MatchesAt(class.methods[k].name, 1)

\* C10, as claimed: the routes of a class with only convention methods reach
\* the router ordered by parameter count, and by name among equal counts.
C10_RoutesSortedByRankThenName ==
    (booted /\ \A k \in DOMAIN classes : ConventionOnly(classes[k])) =>
        \A i \in DOMAIN router, j \in DOMAIN router :
            i < j =>
                \/ Len(router[i].parameters) < Len(router[j].parameters)
                \/ /\ Len(router[i].parameters) = Len(router[j].parameters)
                   /\ LocaleCompare(router[i].name, router[j].name) <= 0

\* What the hook of an entry is documented to leave as the final instance of
\* the object made for call c.
FinalInstance(hook, c) ==
    IF hook = "wrap" THEN Append(Constructed(c[1], c[2]), "decorator")
    ELSE Constructed(c[1], c[2])

\* C19, as claimed: a get() that constructed, for an entry with a configure
\* hook, returns what the hook returned, or the constructed instance when the
\* hook returned nothing, and a Lifetime entry holds that instance afterwards.
C19_HookResultOrInstance ==
    \A c \in AllCalls :
        LET call == CallOf(c) IN
        (/\ call.entry # 0
         /\ call.built /\ call.status = "returned"
         /\ entries[call.entry].configure \in {"same", "wrap", "nothing"})
        => /\ call.value = FinalInstance(entries[call.entry].configure, c)
           /\ entries[call.entry].lifespan = Lifetime
                 => Truthy(entries[call.entry].instance)

\* The error the construction of entry fails with, when it fails.
ConstructionError(entry) ==
    CASE entry.configure = "throws" -> ConfigureError
      [] entry.builder = "flaky" -> BuilderError
      [] OTHER -> FailedToCreate

\* C20: a get() whose construction throws or rejects makes fill reject with
\* that very error and stores nothing; an entry whose construction always
\* fails never returns a value; a Lifetime entry holds an instance only if
\* some get() returned it; and a get() that begins after a failed one, with
\* nothing cached, runs the construction again.
C20_ConstructionErrorsPropagate ==
    LET calls == AllCalls IN
    /\ \A c \in calls : CallOf(c).entry # 0 =>
          LET call == CallOf(c)
              entry == entries[call.entry]
              tk == tasks[c[1]]
          IN /\ (entry.configure = "throws" \/ entry.moduleExports = "plain")
                   => call.status # "returned"
             /\ call.status = "threw" =>
                   /\ tk.pc = "failed"
                   /\ tk.val = ConstructionError(entry)
                   /\ Len(tk.result) = c[2] - 1
                   /\ entry.instance \notin
                         {Constructed(c[1], c[2]), FinalInstance("wrap", c)}
             /\ (call.failed # {} /\ call.prior = {} /\ entry.moduleExports # "plain")
                   => call.built
    /\ \A e \in DOMAIN entries :
          Truthy(entries[e].instance) =>
              \E c \in calls : /\ CallOf(c).entry = e
                               /\ CallOf(c).status = "returned"
                               /\ CallOf(c).value = entries[e].instance

\* A get() of a Lifetime entry failed, a later one constructed again and its
\* instance is the cached one.
C20_Witness ==
    \E c \in AllCalls, d \in AllCalls :
        /\ IsLifetimeCall(c)
        /\ CallOf(d).entry = CallOf(c).entry
        /\ CallOf(c).status = "threw"
        /\ tasks[c[1]].val = BuilderError
        /\ c \in CallOf(d).failed
        /\ CallOf(d).built /\ CallOf(d).status = "returned"
        /\ entries[CallOf(d).entry].instance = CallOf(d).value
        /\ Truthy(CallOf(d).value)

\* C11, as claimed: at most one error of a request reaches handleError, and
\* an error raised while the controller's dependencies are resolved is the
\* one that reaches it.
C11_ErrorsReachHandlerOnce ==
    \A k \in DOMAIN requests :
        /\ Len(requests[k].handled) <= 1
        /\ tasks[requests[k].task].pc = "failed"
              => requests[k].handled = << tasks[requests[k].task].val >>

\* The route a request was matched to.
RouteOf(rq) ==
    router[CHOOSE i \in DOMAIN router :
              /\ router[i].name = rq.route
              /\ router[i].controllerName = rq.controllerName]

\* C12, as claimed: when the path or the body supplies every parameter of the
\* route, the action is called with, for each parameter in declaration order,
\* the path's value if the path has one and the body's value otherwise.
C12_ParametersBoundPathThenBody ==
    \A k \in DOMAIN requests :
        LET rq == requests[k]
            ps == RouteOf(rq).parameters
        IN (\A i \in DOMAIN ps :
               ps[i] \in DOMAIN rq.request.params \cup DOMAIN rq.request.body)
           => /\ rq.called
              /\ rq.args = [i \in DOMAIN ps |->
                               IF ps[i] \in DOMAIN rq.request.params
                               THEN rq.request.params[ps[i]]
                               ELSE rq.request.body[ps[i]]]

\* C18, as claimed: createController with a name that has no entry in
\* controllerTypes ends in the not-found error, calls no fill and constructs
\* nothing.
C18_UnknownControllerNotFound ==
    \A c \in controllers :
        c.name \notin DOMAIN controllerTypes
            => c.outcome = "notfound" /\ c.task = 0

\* C17: after every registration pass, the constructorParameters stored for
\* a class scanned by convention are its constructor's parameters without the
\* first, in order: [vault] for (settings, vault), none for (settings) and
\* for a class without a constructor of its own.
C17_ConstructorDependencyNames ==
    booted =>
        \A k \in DOMAIN classes :
            ~classes[k].registerRoutes =>
                LET ps == controllerTypes[classes[k].controllerName].constructorParameters
                    ctor == classes[k].ctor
                IN /\ Len(ps) = (IF ctor = << >> THEN 0 ELSE Len(ctor) - 1)
                   /\ \A i \in DOMAIN ps : ps[i] = ctor[i + 1]

\* A class declaring constructor(settings, vault) has gone through a reload.
C17_Witness ==
    /\ passes = 2
    /\ \E k \in DOMAIN classes :
          /\ ~classes[k].registerRoutes
          /\ classes[k].ctor = <<"settings", "vault">>
          /\ controllerTypes[classes[k].controllerName].constructorParameters = <<"vault">>

\* The extension a view name carries itself (none: empty), and the name of
\* its file without that extension.
FileOf(view) == SubSeq(view, JsLastIndexOf(view, <<"/">>) + 2, Len(view))

OwnExtension(view) ==
    LET file == FileOf(view)
        dot == JsLastIndexOf(file, <<".">>)
    IN IF dot = -1 \/ dot = Len(file) - 1 THEN << >>
       ELSE SubSeq(file, dot + 1, Len(file))

Stem(view) ==
    LET file == FileOf(view) IN SubSeq(file, 1, JsLastIndexOf(file, <<".">>))

\* d1/view+e1 .. d1/view+em, d2/view+e1 .. dn/view+em
DirectoryMajor(view, exts) ==
    LET m == Len(exts) IN
    [k \in 1..(Len(ViewSearchPath) * m) |->
        ViewSearchPath[((k - 1) \div m) + 1] \o <<"/">> \o view
            \o exts[((k - 1) % m) + 1]]

\* The last locateViewFile call went to the file system for list: it reports
\* list, and when a file of list exists it returns the first such file.
LocatedFrom(list) ==
    /\ located.last.result.viewList = list
    /\ FirstExisting(list, files) > 0
         => /\ located.last.outcome = "returned"
            /\ located.last.result.viewFile = list[FirstExisting(list, files)]

LastMissed == located.n > 0 /\ located.last.probes # << >>

\* The files locateViewFile looks for: the name as given with the override
\* or the configured extensions, or, when the name carries an extension, its
\* file name with that extension alone.
CandidatesOf(asked, extension) ==
    LET own == OwnExtension(asked) IN
    IF own # << >> THEN DirectoryMajor(Stem(asked), <<own>>)
    ELSE DirectoryMajor(asked, IF extension # << >> THEN <<extension>>
                               ELSE ViewExtensions)

\* C13, as claimed: on a cache miss the candidates are the view name as
\* given under every directory with every configured extension (or with the
\* override alone), directory by directory, and the first existing candidate
\* is returned.
C13_CandidatesDirectoryMajor ==
    LastMissed =>
        LocatedFrom(DirectoryMajor(located.last.asked,
                        IF located.last.extension # << >>
                        THEN <<located.last.extension>> ELSE ViewExtensions))

\* C14, as claimed: a locateViewFile call for a view none of whose candidates
\* exists, made with throwIfNotFound, ends in ViewNotFoundError carrying the
\* candidate list, whatever the cache holds.
C14_MissingViewThrows ==
    located.n > 0 =>
        LET last == located.last
            list == CandidatesOf(last.asked, last.extension)
        IN (/\ last.asked # << >>
            /\ last.throwIfNotFound
            /\ FirstExisting(list, files) = 0)
               => /\ last.outcome = "ViewNotFoundError"
                  /\ last.result.viewList = list

\* C15, as claimed: a locateViewFile call for a view name for which an
\* earlier call returned a result returns that same object and asks the file
\* system nothing.
C15_SecondLocateReturnsCached ==
    [][ (located'.n = located.n + 1 /\ located'.last.asked \in DOMAIN located.returned)
          => /\ located'.last.outcome = "returned"
             /\ located'.last.result = located.returned[located'.last.asked]
             /\ located'.last.probes = << >> ]_vars

\* A name that begins with one of the verbs.
BeginsWithVerb(name) == \E v \in DOMAIN Verbs : IsPrefixAt(Verbs[v], name, 1)

\* C21, as claimed: every route handed to the router comes from a method
\* whose name begins with a verb; a method named 'forget' yields none.
C21_RoutesOnlyFromLeadingVerb ==
    \A i \in DOMAIN router : BeginsWithVerb(router[i].name)

\* The placeholders of a url, in order.
PlaceholdersOf(url) ==
    LET ps == SelectSeq(url, LAMBDA seg : seg.kind = "param")
    IN [k \in DOMAIN ps |-> ps[k].text]

\* The method of the scanned classes a route was made of.
MethodOf(r) ==
    LET class == CHOOSE c \in {classes[k] : k \in DOMAIN classes} :
                    c.controllerName = r.controllerName
    IN CHOOSE m \in {class.methods[k] : k \in DOMAIN class.methods} : m.name = r.name

\* C22, as claimed: every route has as many placeholders as parameters and a
\* ranking equal to its number of parameters, a route of a method with a
\* urlPath of its own included.
C22_PlaceholdersAndRankingMatchParameters ==
    \A i \in DOMAIN router :
        /\ Len(PlaceholdersOf(router[i].urlPath)) = Len(router[i].parameters)
        /\ router[i].ranking = Len(router[i].parameters)

\* C22, amended: a route of a method without a urlPath of its own has its
\* parameters for placeholders, in order, and their number for a ranking; a
\* route of a method with a urlPath string has that path as it is, whatever
\* the parameters are, and the ranking 0.
C22_PlaceholdersAndRankingByConvention ==
    \A i \in DOMAIN router :
        LET r == router[i]
            m == MethodOf(r)
        IN /\ r.parameters = m.params
           /\ m.urlPath = "none"
                => /\ PlaceholdersOf(r.urlPath) = r.parameters
                   /\ r.ranking = Len(r.parameters)
           /\ m.urlPath # "none"
                => /\ r.urlPath = FixedPaths[m.urlPath]
                   /\ r.ranking = 0

\* A route with a urlPath of its own that takes a parameter stands in the
\* router with a route by convention that takes two.
C22_Witness ==
    /\ \E i \in DOMAIN router :
          /\ MethodOf(router[i]).urlPath = "/items"
          /\ router[i].parameters = <<"id">>
          /\ PlaceholdersOf(router[i].urlPath) = << >>
    /\ \E i \in DOMAIN router :
          /\ MethodOf(router[i]).urlPath = "none"
          /\ Len(router[i].parameters) = 2

\* C23, as claimed: a locateViewFile call without throwIfNotFound that finds
\* none of its candidates returns an empty viewFile with the candidate list
\* and leaves that result in the cache under the view name asked for, where
\* the next call for that name finds it.
C23_NegativeResultCached ==
    LET last == located.last IN
    (/\ LastMissed
     /\ ~last.throwIfNotFound
     /\ FirstExisting(CandidatesOf(last.asked, last.extension), files) = 0)
        => /\ last.outcome = "returned"
           /\ last.result.viewFile = << >>
           /\ last.result.viewList = CandidatesOf(last.asked, last.extension)
           /\ last.asked \in DOMAIN viewLookupCache
           /\ viewLookupCache[last.asked] = last.result

\* C24, as claimed: no step removes a key of the view cache or puts another
\* file or candidate list under a key it has.
C24_CacheOnlyGrows ==
    [][ \A k \in DOMAIN viewLookupCache :
          /\ k \in DOMAIN viewLookupCache'
          /\ viewLookupCache'[k].viewFile = viewLookupCache[k].viewFile
          /\ viewLookupCache'[k].viewList = viewLookupCache[k].viewList ]_vars

\* C25, as claimed: a locateViewFile call made after a reload returns no
\* result that was put into the cache before that reload.
C25_ReloadClearsViewCaches ==
    (located.n > located.since /\ located.last.outcome = "returned")
        => located.last.result.id > located.since

\* C29: once registerControllersAsync has run, a class with a static
\* registerRoutes has no route made of its methods in the router and no
\* constructorParameters, and it is in the controller-type table with its
\* router mounted.
C29_OwnRegistrationSkipsScan ==
    booted =>
        \A k \in DOMAIN classes :
            classes[k].registerRoutes =>
                LET name == classes[k].controllerName IN
                /\ \A i \in DOMAIN router : router[i].controllerName # name
                /\ name \in DOMAIN controllerTypes
                /\ controllerTypes[name].constructorParameters = << >>
                /\ \E j \in DOMAIN mounts : mounts[j] = name

\* A registered class with a registerRoutes of its own that declares
\* constructor(settings, vault) and a method named by a verb.
C29_Witness ==
    /\ booted
    /\ \E k \in DOMAIN classes :
          /\ classes[k].registerRoutes
          /\ classes[k].ctor = <<"settings", "vault">>
          /\ \E j \in DOMAIN classes[k].methods :
                BeginsWithVerb(classes[k].methods[j].name)

\* C26, as claimed: at no time are two executions of run() between their
\* first await and their end.
C26_ReloadsSingleFlight == Cardinality(Rebuilding(app)) <= 1

\* C27: a reload requested less than 1000 ms after the last start of the
\* server returns at once: it emits nothing, closes nothing and begins no
\* rebuild.
C27_EarlyReloadIgnored ==
    \A k \in DOMAIN app.reloads :
        LET request == app.reloads[k] IN
        (request.last >= 0 /\ request.at - request.last < Window)
            => /\ request.ignored
               /\ ~request.emitted
               /\ ~request.closed
               /\ request.run = 0

\* A reload has been skipped 500 ms after a start, and a later one has not.
C27_Witness ==
    /\ \E k \in DOMAIN app.reloads :
          /\ app.reloads[k].ignored
          /\ app.reloads[k].at - app.reloads[k].last = TickMs
    /\ \E k \in DOMAIN app.reloads :
          /\ ~app.reloads[k].ignored
          /\ app.reloads[k].closed

\* C30, as claimed: a run() whose configuration holds dependencies under
\* 'app.di' gets past the construction of its DIContainer, and every key of
\* that content then names an entry of the container.
C30_ContainerBuiltFromContent ==
    \A r \in DOMAIN app.runs :
        (app.di # << >> /\ app.runs[r].pc # "readFile")
            => /\ app.runs[r].pc # "failed"
               /\ \A k \in DOMAIN app.di :
                     /\ app.di[k].name \in DOMAIN modules
                     /\ modules[app.di[k].name] \in DOMAIN entries

C31_SingleUseIsTransient ==
    /\ \A e \in DOMAIN entries :
          IF entries[e].declared \in {"SingleUse", "1"}
          THEN ~Truthy(entries[e].instance)
          ELSE entries[e].lifespan = Lifetime
    /\ \A c \in AllCalls :
          (/\ CallOf(c).entry # 0
           /\ entries[CallOf(c).entry].declared \in {"SingleUse", "1"}
           /\ CallOf(c).status = "returned")
              => CallOf(c).built

\* text.endsWith(e)
EndsWith(text, e) ==
    Len(e) <= Len(text) /\ SubSeq(text, Len(text) - Len(e) + 1, Len(text)) = e

\* C32, as claimed: a locateViewFile call for a view name without an
\* extension of its own, made with an extension, returns no file that ends
\* otherwise, whatever calls came before.
C32_OverrideExtensionHonoured ==
    LET last == located.last IN
    (/\ located.n > 0
     /\ last.asked # << >>
     /\ OwnExtension(last.asked) = << >>
     /\ last.extension # << >>
     /\ last.outcome = "returned"
     /\ last.result.viewFile # << >>)
        => EndsWith(last.result.viewFile, last.extension)


\* The entry the name `key` stood for once the first k entries were registered
\* (0 when none of them has the name).
LatestEntry(key, k) ==
    LET named == {e \in 1..k : entries[e].key = key}
    IN IF named = {} THEN 0 ELSE CHOOSE e \in named : \A d \in named : d <= e

\* Entry n took the place of entry o under their name.
Replaced(o, n) ==
    /\ o < n
    /\ entries[o].key = entries[n].key
    /\ LatestEntry(entries[n].key, n - 1) = o

\* The get() call that constructed the instance v.
Maker(v) == <<v[1], v[2]>>

\* C33: once register(name, spec, true) has replaced the entry of a Lifetime
\* key, every get(name) that begins afterwards works on the newest entry of the
\* name, and what it returns was constructed for that entry: never the
\* instance the replaced entry holds.
C33_ResolvesAfterOverwriteUseNewEntry ==
    \A q \in AllCalls : \A o \in DOMAIN entries, n \in DOMAIN entries :
        LET c == CallOf(q) IN
        (/\ Replaced(o, n)
         /\ entries[o].lifespan = Lifetime
         /\ KeyOf(q) = entries[n].key
         /\ c.seen >= n)
            => /\ c.entry = LatestEntry(KeyOf(q), c.seen)
               /\ c.entry # o
               /\ (c.status = "returned" /\ Truthy(c.value))
                     => /\ Maker(c.value) \in AllCalls
                        /\ CallOf(Maker(c.value)).entry = c.entry
                        /\ CallOf(Maker(c.value)).built
                        /\ c.value # entries[o].instance

\* The last register() replaced, with overwrite, an entry that held a cached
\* instance, and a get() begun after it has constructed and returned another.
C33_Witness ==
    /\ lastReg.outcome = "ok"
    /\ lastReg.overwrite
    /\ Truthy(lastReg.held)
    /\ modules[lastReg.name] = Len(entries)
    /\ \E q \in AllCalls :
          /\ KeyOf(q) = lastReg.name
          /\ CallOf(q).seen = Len(entries)
          /\ CallOf(q).status = "returned"
          /\ CallOf(q).built
          /\ Truthy(CallOf(q).value)
          /\ CallOf(q).value # lastReg.held

====
